---- MODULE Spec2Model ----
(***************************************************************************)
(* A model of the Holon workflow engine (engine/src/holon_engine):         *)
(* WorkflowEngine.execute_run, _execute_sequential and _resolve_template,  *)
(* running against the PersistenceService run store.                       *)
(*                                                                         *)
(* Text is modelled as a sequence of tokens.  The tokens "{", "}", "." and *)
(* "$" are the characters the resolver's regular expression and split()    *)
(* look at; every other token is a piece of text holding none of them.     *)
(***************************************************************************)
EXTENDS Integers, Sequences, FiniteSets, TLC

VARIABLES
    store,      \* the persisted run record of the run id (runs/<id>.json), or Absent
    config,     \* what parse_config makes of the workflow text handed to execute_run
    eng,        \* per invocation of execute_run: its position and local variables
                \* (step_raised: history, the index of the step whose try block raised)
    clock,      \* the number of datetime.utcnow() readings so far
    faults,     \* the number of store calls that failed so far
    hist,       \* history: every record written by a successful save_run, in order
    dispatched, \* history: (step index, step id, result) of each agent execution
    rs,         \* the template resolver exercised on its own: template, blackboard, outputs
    projects,   \* the deployed projects (projects/<id>.json), in the order of their deployment
    resp,       \* the API's latest response, with the request it answers
    cli         \* the CLI: its configuration file and the outcome of its latest call

vars == <<store, config, eng, clock, faults, hist, dispatched, rs, projects, resp, cli>>

(***************************************************************************)
(* Bounds of the model.                                                    *)
(***************************************************************************)
MaxSteps == 2
MaxFaults == 2
MaxPieces == 3
MaxProjects == 2

(***************************************************************************)
(* Text helpers.                                                           *)
(***************************************************************************)
\* The least j in i+1..Len(t) with t[j] = "}", or 0 when there is none.
NextClose(t, i) ==
    LET js == {j \in (i + 1)..Len(t) : t[j] = "}"}
    IN IF js = {} THEN 0 ELSE CHOOSE j \in js : \A k \in js : j <= k

\* The element of a one-element set.  A recursive call is written
\* Only({F(x) : x \in {e}}) so that its argument e is evaluated once.
Only(S) == CHOOSE r \in S : TRUE

\* str.split("."): the parts of a path between its "." tokens.
RECURSIVE SplitDots(_)
SplitDots(g) ==
    LET ds == {j \in 1..Len(g) : g[j] = "."}
    IN IF ds = {} THEN <<g>>
       ELSE LET d == CHOOSE j \in ds : \A k \in ds : j <= k
            IN <<SubSeq(g, 1, d - 1)>>
               \o Only({SplitDots(rest) : rest \in {SubSeq(g, d + 1, Len(g))}})

(***************************************************************************)
(* Blackboard values: a string, or a mapping with insertion-ordered keys.  *)
(***************************************************************************)
StrV(s) == [k |-> "str", s |-> s, keys |-> <<>>, vals |-> <<>>]
MapV(ks, vs) == [k |-> "map", s |-> <<>>, keys |-> ks, vals |-> vs]

IsMap(v) == v.k = "map"

\* `part in value` for a dict: the part is exactly one of the keys.
HasKey(v, part) == \E j \in 1..Len(v.keys) : part = <<v.keys[j]>>

GetKey(v, part) == v.vals[CHOOSE j \in 1..Len(v.keys) : part = <<v.keys[j]>>]

\* str(value): a string is itself, a dict is its Python repr.
RECURSIVE Repr(_)
RECURSIVE ReprItems(_, _)
ReprItems(v, j) ==
    IF j > Len(v.keys) THEN <<>>
    ELSE (IF j > 1 THEN <<", ">> ELSE <<>>)
         \o <<"'", v.keys[j], "'", ": ">> \o Repr(v.vals[j]) \o ReprItems(v, j + 1)
Repr(v) ==
    IF IsMap(v) THEN <<"{">> \o ReprItems(v, 1) \o <<"}">>
    ELSE <<"'">> \o v.s \o <<"'">>

StrOf(v) == IF IsMap(v) THEN Repr(v) ELSE v.s

(***************************************************************************)
(* _resolve_template: re.sub(r"\{([^}]+)\}", replace_var, template).       *)
(***************************************************************************)
\* The walk of replace_var over the parts of the path, from `value`.
RECURSIVE Walk(_, _)
Walk(parts, value) ==
    IF parts = <<>> THEN [ok |-> TRUE, value |-> value]
    ELSE IF IsMap(value) /\ HasKey(value, Head(parts))
         THEN Only({Walk(p, v) : p \in {Tail(parts)}, v \in {GetKey(value, Head(parts))}})
         ELSE [ok |-> FALSE, value |-> value]

\* Mutant of ReplaceVar: a path that does not resolve gives the empty text.
ReplaceVarDropsUnresolved(group1, whole, context) ==
    LET w == Walk(SplitDots(group1), context)
    IN IF w.ok THEN StrOf(w.value) ELSE <<>>

\* replace_var(match): group1 is match.group(1), whole is match.group(0).
ReplaceVar(group1, whole, context) ==
    LET w == Walk(SplitDots(group1), context)
    IN IF w.ok THEN StrOf(w.value) ELSE whole

\* Where the pattern matches at position i: the index of the closing brace,
\* or 0 when it does not match there.
MatchEnd(t, i) ==
    IF t[i] # "{" THEN 0
    ELSE LET j == NextClose(t, i) IN IF j > i + 1 THEN j ELSE 0

\* re.sub from position i on: leftmost, non-overlapping matches, replaced once.
RECURSIVE SubFrom(_, _, _)
SubFrom(t, i, context) ==
    IF i > Len(t) THEN <<>>
    ELSE LET j == MatchEnd(t, i)
         IN IF j = 0 THEN <<t[i]>> \o Only({SubFrom(t, k, context) : k \in {i + 1}})
            ELSE ReplaceVar(SubSeq(t, i + 1, j - 1), SubSeq(t, i, j), context)
                 \o Only({SubFrom(t, k, context) : k \in {j + 1}})

\* Mutant of ResolveTemplate: the substituted text is scanned once more.
ResolveTemplateRescans(template, context) ==
    SubFrom(SubFrom(template, 1, context), 1, context)

ResolveTemplate(template, context) == SubFrom(template, 1, context)

(***************************************************************************)
(* Records of the store (models.Run, models.TraceEvent).                   *)
(***************************************************************************)
NullTime == 0

\* run.input_context: None, or a mapping of keys to strings.
NoInput == [some |-> FALSE, keys |-> <<>>, vals |-> <<>>]
InputOf(ks, vs) == [some |-> TRUE, keys |-> ks, vals |-> vs]

\* run.context: None, or the blackboard {"trigger": {"input": ..}, "steps": ..}.
NoContext == [some |-> FALSE, input |-> NoInput, steps |-> <<>>]

\* get_run's None, and the local variable `run` holding None.
NoRun == [some |-> FALSE, id |-> "", project_id |-> "", status |-> "",
          context |-> NoContext, input_context |-> NoInput,
          started_at |-> NullTime, ended_at |-> NullTime, trace_events |-> <<>>]

\* TraceEvent(step_id, status, input, output, timestamp).
TraceEvent(step_id, status, input, output, timestamp) ==
    [step_id |-> step_id, status |-> status, input |-> input,
     output |-> output, timestamp |-> timestamp]

NoStepInput == [agent |-> "", instruction |-> <<>>]

\* _call_ollama_agent's answer to a transport error: a text "[Error...]".
IsErrorText(result) == Len(result) > 0 /\ result[1] = "[Error"

\* Mutant of StepOutput: an error text is stored as the step's error.
StepOutputErrorAsFailure(result, instruction) ==
    IF IsErrorText(result)
    THEN [result |-> <<>>, instruction |-> instruction, error |-> "ProviderError"]
    ELSE [result |-> result, instruction |-> instruction, error |-> ""]

\* step_output = {"result": .., "instruction": ..}
StepOutput(result, instruction) ==
    [result |-> result, instruction |-> instruction, error |-> ""]

\* output = {"error": str(e)}
ErrorOutput(e) == [result |-> <<>>, instruction |-> <<>>, error |-> e]

(***************************************************************************)
(* The blackboard as the resolver sees it.                                 *)
(***************************************************************************)
InputValue(inp) ==
    MapV(inp.keys, [j \in 1..Len(inp.vals) |-> StrV(inp.vals[j])])

OutputValue(out) ==
    MapV(<<"result", "instruction">>, <<StrV(out.result), StrV(out.instruction)>>)

StepsValue(steps) ==
    MapV([j \in 1..Len(steps) |-> steps[j].id],
         [j \in 1..Len(steps) |-> OutputValue(steps[j].out)])

\* Mutant of Blackboard: the resolver is handed the trigger alone.
BlackboardOfTriggerOnly(context) ==
    MapV(<<"trigger", "steps">>,
         <<MapV(<<"input">>, <<InputValue(context.input)>>), StepsValue(<<>>)>>)

Blackboard(context) ==
    MapV(<<"trigger", "steps">>,
         <<MapV(<<"input">>, <<InputValue(context.input)>>), StepsValue(context.steps)>>)

\* Mutant of InitContext: the `or {}` is missing.
InitContextKeepsNone(input_context) ==
    [some |-> TRUE, input |-> input_context, steps |-> <<>>]

\* context = {"trigger": {"input": run.input_context or {}}, "steps": {}}
InitContext(input_context) ==
    [some |-> TRUE,
     input |-> IF input_context.some THEN input_context ELSE InputOf(<<>>, <<>>),
     steps |-> <<>>]

\* Mutant of SetStep: a new key is put first.
SetStepFirst(steps, id, out) ==
    IF \E j \in 1..Len(steps) : steps[j].id = id
    THEN [j \in 1..Len(steps) |->
            IF steps[j].id = id THEN [id |-> id, out |-> out] ELSE steps[j]]
    ELSE <<[id |-> id, out |-> out]>> \o steps

\* context["steps"][id] = out: a new key goes last, an old key keeps its place.
SetStep(steps, id, out) ==
    IF \E j \in 1..Len(steps) : steps[j].id = id
    THEN [j \in 1..Len(steps) |->
            IF steps[j].id = id THEN [id |-> id, out |-> out] ELSE steps[j]]
    ELSE Append(steps, [id |-> id, out |-> out])

(***************************************************************************)
(* The workflow handed to execute_run (models.HolonConfig).                *)
(***************************************************************************)
IdPool == <<"step1", "step2", "step3", "step4">>

PlainText == <<"Step">>
TopicRef == <<"Research ", "$", "{", "trigger", ".", "input", ".", "topic", "}">>
Step1Ref == <<"Use ", "$", "{", "steps", ".", "step1", ".", "result", "}">>
Step2Ref == <<"Use ", "$", "{", "steps", ".", "step2", ".", "result", "}">>

\* resources: one agent with a live integration, one without.
Resources == <<[id |-> "local", provider |-> "ollama"],
               [id |-> "writer", provider |-> "anthropic"]>>

\* The (agent, instruction) pairs a step is drawn from; "ghost" is declared nowhere.
StepKinds == {<<"writer", PlainText>>, <<"writer", TopicRef>>, <<"writer", Step1Ref>>,
              <<"local", Step1Ref>>, <<"ghost", Step2Ref>>}

\* The steps that may stand at position i: its own id, or the first step's id again.
StepDefs(i) ==
    {[id |-> d, agent |-> k[1], instruction |-> k[2]] : d \in {IdPool[i], IdPool[1]}, k \in StepKinds}

StepLists ==
    UNION {{s \in [1..n -> UNION {StepDefs(i) : i \in 1..n}] : \A i \in 1..n : s[i] \in StepDefs(i)}
           : n \in 0..MaxSteps}

WorkflowTypes == {"sequential", "scatter-gather", "parallel"}

\* parse_config raising (invalid YAML, a field missing, an unknown workflow type).
ParseError == [ok |-> FALSE, type |-> "", steps |-> <<>>, resources |-> <<>>]

Configs ==
    {ParseError} \cup
    {[ok |-> TRUE, type |-> t, steps |-> s, resources |-> Resources] : t \in WorkflowTypes, s \in StepLists}

InputContexts == {NoInput, InputOf(<<>>, <<>>), InputOf(<<"topic">>, <<<<"Rust">>>>)}

\* Run(id=uuid4(), project_id=.., status=PENDING, input_context=..,
\* started_at=None, ended_at=None); the model follows one run id.
NewRun(project_id, input_context) ==
    [some |-> TRUE, id |-> "run1", project_id |-> project_id, status |-> "PENDING",
     context |-> NoContext, input_context |-> input_context,
     started_at |-> NullTime, ended_at |-> NullTime, trace_events |-> <<>>]

\* The run as trigger_run saves it before it starts execute_run.
PendingRun(input_context) == NewRun("proj1", input_context)

(***************************************************************************)
(* The store (PersistenceService.get_run, save_run).  A call may fail      *)
(* while fewer than MaxFaults calls have failed: get_run then answers None *)
(* (the file is missing or unreadable), save_run raises.                   *)
(***************************************************************************)
FaultChoices == IF faults < MaxFaults THEN {FALSE, TRUE} ELSE {FALSE}

\* get_run(run_id): the record of that id, None when there is none or the read fails.
GetRun(run_id, fault) == IF fault \/ store.id # run_id THEN NoRun ELSE store

\* save_run(run): the full record replaces the stored one, or nothing is written.
\* Mutant of SaveRun: the stored events the saved record lacks are kept.
SaveRunMergesTrace(run, fault) ==
    LET kept == SelectSeq(store.trace_events,
                          LAMBDA e : \A k \in 1..Len(run.trace_events) : run.trace_events[k] # e)
        merged == [run EXCEPT !.trace_events = kept \o run.trace_events]
    IN /\ store' = IF fault THEN store ELSE merged
       /\ hist' = IF fault THEN hist ELSE Append(hist, merged)
       /\ faults' = IF fault THEN faults + 1 ELSE faults

SaveRun(run, fault) ==
    /\ store' = IF fault THEN store ELSE run
    /\ hist' = IF fault THEN hist ELSE Append(hist, run)
    /\ faults' = IF fault THEN faults + 1 ELSE faults

ReadFault(fault) == faults' = IF fault THEN faults + 1 ELSE faults

(***************************************************************************)
(* execute_run and _execute_sequential, one action per store call.         *)
(***************************************************************************)
Workers == {"w1", "w2"}

\* Mutant of MarkRunning: the status is left as it was.
MarkRunningKeepsStatus(run, now) == [run EXCEPT !.started_at = now]

\* Lines 81-82: run.status = RUNNING, run.started_at = utcnow().
\* Mutant of MarkRunning: started_at is left unset.
MarkRunningWithoutStart(run, now) == [run EXCEPT !.status = "RUNNING"]

\* Mutant of MarkRunning: the input is normalised on the run itself.
MarkRunningFillsInput(run, now) ==
    [run EXCEPT !.status = "RUNNING", !.started_at = now,
                !.input_context = IF run.input_context.some THEN run.input_context
                                  ELSE InputOf(<<>>, <<>>)]

MarkRunning(run, now) == [run EXCEPT !.status = "RUNNING", !.started_at = now]

\* Mutant of Supported: the parallel type is run by the sequential executor.
SupportedWithParallel(type) == type \in {"sequential", "parallel"}

\* Line 89: the workflow types execute_run has an executor for.
Supported(type) == type = "sequential"

\* Mutant of ErrorEvent: the event is recorded under the failing exception's name.
ErrorEventNamedAfterError(e, timestamp) ==
    TraceEvent(e, "FAILED", NoStepInput, ErrorOutput(e), timestamp)

\* Lines 114-119: the synthetic event of the top-level handler.
ErrorEvent(e, timestamp) ==
    TraceEvent("system_error", "FAILED", NoStepInput, ErrorOutput(e), timestamp)

Idle == [pc |-> "idle", run_id |-> "", run |-> NoRun, srun |-> NoRun, context |-> NoContext,
         i |-> 0, exc |-> "", step_raised |-> 0]

\* execute_run(run_id, config_yaml) has been called and is about to start.
Called(run_id) == [Idle EXCEPT !.run_id = run_id]

Off == [Idle EXCEPT !.pc = "off"]

Set(w, r) == eng' = [eng EXCEPT ![w] = r]

\* The agent of a step: the first resource whose id is step.agent, if any.
FindAgent(step) ==
    LET js == {j \in 1..Len(config.resources) : config.resources[j].id = step.agent}
    IN IF js = {} THEN [id |-> "", provider |-> ""]
       ELSE config.resources[CHOOSE j \in js : \A k \in js : j <= k]

\* What _call_ollama_agent may return: the model's reply, or an error text.
OllamaResults == {<<"abc">>, <<"[Error", ": Ollama request timed out]">>}

\* Mutant of StepResults: the simulated text names the agent, not the step.
StepResultsNamesAgent(step) ==
    IF FindAgent(step).provider = "ollama" THEN OllamaResults
    ELSE {<<"[SIMULATED] Executed step ", step.agent>>}

\* The results the execution of a step may give.
StepResults(step) ==
    IF FindAgent(step).provider = "ollama" THEN OllamaResults
    ELSE {<<"[SIMULATED] Executed step ", step.id>>}

\* Mutant of Start: the `if not run: return` is missing.
StartSkipsAbsentCheck(w) ==
    /\ eng[w].pc = "idle"
    /\ \E f \in FaultChoices :
        LET run == GetRun(eng[w].run_id, f) IN
        /\ ReadFault(f)
        /\ IF ~config.ok \/ ~run.some
           THEN /\ Set(w, [eng[w] EXCEPT !.pc = "handler_load", !.run = run,
                              !.exc = IF ~config.ok THEN "ConfigError" ELSE "AttributeError"])
                /\ UNCHANGED clock
           ELSE /\ Set(w, [eng[w] EXCEPT !.pc = "save_running",
                              !.run = MarkRunning(run, clock)])
                /\ clock' = clock + 1
    /\ UNCHANGED <<store, config, hist, dispatched, rs, projects, resp, cli>>

\* Lines 73-83 up to the save: load the run, parse the configuration, mark it RUNNING.
Start(w) ==
    /\ eng[w].pc = "idle"
    /\ \E f \in FaultChoices :
        LET run == GetRun(eng[w].run_id, f) IN
        /\ ReadFault(f)
        /\ IF ~run.some
           THEN /\ Set(w, [eng[w] EXCEPT !.pc = "returned"])
                /\ UNCHANGED clock
           ELSE IF ~config.ok
           THEN /\ Set(w, [eng[w] EXCEPT !.pc = "handler_load", !.run = run,
                                         !.exc = "ConfigError"])
                /\ UNCHANGED clock
           ELSE /\ Set(w, [eng[w] EXCEPT !.pc = "save_running",
                              !.run = MarkRunning(run, clock)])
                /\ clock' = clock + 1
    /\ UNCHANGED <<store, config, hist, dispatched, rs, projects, resp, cli>>

\* Lines 83-94: save the RUNNING run, build the context, choose the executor.
SaveRunning(w) ==
    /\ eng[w].pc = "save_running"
    /\ \E f \in FaultChoices :
        /\ SaveRun(eng[w].run, f)
        /\ IF f
           THEN Set(w, [eng[w] EXCEPT !.pc = "handler_load", !.exc = "StoreError"])
           ELSE LET context == InitContext(eng[w].run.input_context) IN
                IF ~Supported(config.type)
                THEN Set(w, [eng[w] EXCEPT !.pc = "handler_load", !.context = context,
                                           !.exc = "NotImplementedError"])
                ELSE IF Len(config.steps) = 0
                THEN Set(w, [eng[w] EXCEPT !.pc = "complete_load", !.context = context])
                ELSE Set(w, [eng[w] EXCEPT !.pc = "step_load", !.context = context, !.i = 1])
    /\ UNCHANGED <<config, clock, dispatched, rs, projects, resp, cli>>

\* Lines 129-183: reload the run, resolve the instruction, execute the agent,
\* write the output into the context and append the COMPLETED event.
StepLoad(w) ==
    /\ eng[w].pc = "step_load"
    /\ LET step == config.steps[eng[w].i] IN
       \E f \in FaultChoices, result \in StepResults(step),
          instruction \in {ResolveTemplate(step.instruction, Blackboard(eng[w].context))} :
        LET run == GetRun(eng[w].run_id, f)
            step_input == [agent |-> step.agent, instruction |-> instruction]
            step_output == StepOutput(result, instruction)
            context == [eng[w].context EXCEPT
                            !.steps = SetStep(eng[w].context.steps, step.id, step_output)]
            event == TraceEvent(step.id, "COMPLETED", step_input, step_output, clock + 1)
        IN
        /\ ReadFault(f)
        /\ dispatched' = Append(dispatched, <<eng[w].i, step.id, result>>)
        /\ clock' = clock + 2
        /\ IF ~run.some
           THEN \* run.trace_events raises AttributeError, in the try and in its handler
                Set(w, [eng[w] EXCEPT !.pc = "handler_load", !.context = context,
                                      !.srun = NoRun, !.exc = "AttributeError",
                                      !.step_raised = eng[w].i])
           ELSE Set(w, [eng[w] EXCEPT !.pc = "step_save", !.context = context,
                          !.srun = [run EXCEPT !.trace_events = Append(run.trace_events, event),
                                               !.context = context]])
    /\ UNCHANGED <<store, config, hist, rs, projects, resp, cli>>

\* Line 184, and lines 186-198 when it raises: save the run after the step.
StepSave(w) ==
    /\ eng[w].pc = "step_save"
    /\ \E f \in FaultChoices :
        /\ SaveRun(eng[w].srun, f)
        /\ IF f
           THEN LET step == config.steps[eng[w].i]
                    event == TraceEvent(step.id, "FAILED",
                                        [agent |-> "", instruction |-> step.instruction],
                                        ErrorOutput("StoreError"), clock)
                IN /\ Set(w, [eng[w] EXCEPT !.pc = "step_fail_save", !.exc = "StoreError",
                                !.step_raised = eng[w].i,
                                !.srun = [eng[w].srun EXCEPT
                                    !.trace_events = Append(eng[w].srun.trace_events, event)]])
                   /\ clock' = clock + 1
           ELSE /\ IF eng[w].i < Len(config.steps)
                   THEN Set(w, [eng[w] EXCEPT !.pc = "step_load", !.i = eng[w].i + 1])
                   ELSE Set(w, [eng[w] EXCEPT !.pc = "complete_load"])
                /\ UNCHANGED clock
    /\ UNCHANGED <<config, dispatched, rs, projects, resp, cli>>

\* Mutant of StepFailSave: the `raise` is missing, the loop goes on.
StepFailSaveContinues(w) ==
    /\ eng[w].pc = "step_fail_save"
    /\ \E f \in FaultChoices :
        /\ SaveRun(eng[w].srun, f)
        /\ IF f
           THEN Set(w, [eng[w] EXCEPT !.pc = "handler_load", !.exc = "StoreError"])
           ELSE IF eng[w].i < Len(config.steps)
           THEN Set(w, [eng[w] EXCEPT !.pc = "step_load", !.i = eng[w].i + 1])
           ELSE Set(w, [eng[w] EXCEPT !.pc = "complete_load"])
    /\ UNCHANGED <<config, clock, dispatched, rs, projects, resp, cli>>

\* Lines 199-200: save the run with the FAILED event, then raise.
StepFailSave(w) ==
    /\ eng[w].pc = "step_fail_save"
    /\ \E f \in FaultChoices :
        /\ SaveRun(eng[w].srun, f)
        /\ Set(w, [eng[w] EXCEPT !.pc = "handler_load", !.exc = "StoreError"])
    /\ UNCHANGED <<config, clock, dispatched, rs, projects, resp, cli>>

\* Mutant of CompleteLoad: the reloaded run keeps the status it was loaded with.
CompleteLoadKeepsStatus(w) ==
    /\ eng[w].pc = "complete_load"
    /\ \E f \in FaultChoices :
        LET run == GetRun(eng[w].run_id, f) IN
        /\ ReadFault(f)
        /\ IF ~run.some
           THEN /\ Set(w, [eng[w] EXCEPT !.pc = "handler_load", !.run = NoRun,
                                         !.exc = "AttributeError"])
                /\ UNCHANGED clock
           ELSE /\ Set(w, [eng[w] EXCEPT !.pc = "complete_save",
                              !.run = [run EXCEPT !.ended_at = clock,
                                                  !.context = eng[w].context]])
                /\ clock' = clock + 1
    /\ UNCHANGED <<store, config, hist, dispatched, rs, projects, resp, cli>>

\* Lines 97-102: reload the run and mark it COMPLETED.
CompleteLoad(w) ==
    /\ eng[w].pc = "complete_load"
    /\ \E f \in FaultChoices :
        LET run == GetRun(eng[w].run_id, f) IN
        /\ ReadFault(f)
        /\ IF ~run.some
           THEN /\ Set(w, [eng[w] EXCEPT !.pc = "handler_load", !.run = NoRun,
                                         !.exc = "AttributeError"])
                /\ UNCHANGED clock
           ELSE /\ Set(w, [eng[w] EXCEPT !.pc = "complete_save",
                              !.run = [run EXCEPT !.status = "COMPLETED", !.ended_at = clock,
                                                  !.context = eng[w].context]])
                /\ clock' = clock + 1
    /\ UNCHANGED <<store, config, hist, dispatched, rs, projects, resp, cli>>

\* Mutant of CompleteSave: the statement after the save raises inside the try.
CompleteSaveThenRaises(w) ==
    /\ eng[w].pc = "complete_save"
    /\ \E f \in FaultChoices :
        /\ SaveRun(eng[w].run, f)
        /\ Set(w, [eng[w] EXCEPT !.pc = "handler_load", !.exc = "StoreError"])
    /\ UNCHANGED <<config, clock, dispatched, rs, projects, resp, cli>>

\* Line 103: save the COMPLETED run.
CompleteSave(w) ==
    /\ eng[w].pc = "complete_save"
    /\ \E f \in FaultChoices :
        /\ SaveRun(eng[w].run, f)
        /\ IF f
           THEN Set(w, [eng[w] EXCEPT !.pc = "handler_load", !.exc = "StoreError"])
           ELSE Set(w, [eng[w] EXCEPT !.pc = "returned"])
    /\ UNCHANGED <<config, clock, dispatched, rs, projects, resp, cli>>

\* Lines 105-120: the top-level handler reloads the run (or keeps its own),
\* marks it FAILED and appends the system_error event.
HandlerLoad(w) ==
    /\ eng[w].pc = "handler_load"
    /\ \E f \in FaultChoices :
        LET loaded == GetRun(eng[w].run_id, f)
            run == IF loaded.some THEN loaded ELSE eng[w].run
            event == ErrorEvent(eng[w].exc, clock + 1)
        IN
        /\ ReadFault(f)
        /\ IF ~run.some
           THEN \* run.status = .. on None: AttributeError leaves execute_run
                /\ Set(w, [eng[w] EXCEPT !.pc = "raised", !.run = NoRun,
                                         !.exc = "AttributeError"])
                /\ UNCHANGED clock
           ELSE /\ Set(w, [eng[w] EXCEPT !.pc = "handler_save",
                              !.run = [run EXCEPT
                                  !.status = "FAILED", !.ended_at = clock,
                                  !.context = IF eng[w].context.some THEN eng[w].context
                                              ELSE run.context,
                                  !.trace_events = Append(run.trace_events, event)]])
                /\ clock' = clock + 2
    /\ UNCHANGED <<store, config, hist, dispatched, rs, projects, resp, cli>>

\* Line 121: save the FAILED run; nothing catches this call.
HandlerSave(w) ==
    /\ eng[w].pc = "handler_save"
    /\ \E f \in FaultChoices :
        /\ SaveRun(eng[w].run, f)
        /\ IF f
           THEN Set(w, [eng[w] EXCEPT !.pc = "raised", !.exc = "StoreError"])
           ELSE Set(w, [eng[w] EXCEPT !.pc = "returned"])
    /\ UNCHANGED <<config, clock, dispatched, rs, projects, resp, cli>>

\* A request of the API: the arguments of deploy_project and of trigger_run.
Request(name, config_yaml, project_id, input_context) ==
    [name |-> name, config_yaml |-> config_yaml, project_id |-> project_id,
     input_context |-> input_context, run_id |-> ""]

\* A request that names a run: GET /runs/{run_id} and /runs/{run_id}/logs.
RunRequest(run_id) == [Request("", ParseError, "", NoInput) EXCEPT !.run_id = run_id]

\* A response: its status code, its detail or status text, the id it carries
\* (project_id or run_id), the run status it reports and the list it returns.
Response(op, request, status, detail, id, run_status) ==
    [op |-> op, request |-> request, status |-> status, detail |-> detail,
     id |-> id, run_status |-> run_status, body |-> <<>>]

NoResponse == Response("", Request("", ParseError, "", NoInput), 0, "", "", "")

RsIdle == [pc |-> "off", template |-> <<>>, context |-> NoContext, out |-> <<>>, again |-> <<>>]

(***************************************************************************)
(* The CLI's configuration (cli/src/holon_cli/config.py, models.CLIConfig).*)
(***************************************************************************)
\* An Optional[str]: None, or a string.
Null == [some |-> FALSE, s |-> ""]
Str(s) == [some |-> TRUE, s |-> s]

\* The fields of CLIConfig.
CliFields == {"host", "api_key", "default_project"}

\* CLIConfig(): every field at its default.
CLIConfig == [host |-> Str("http://localhost:8000"), api_key |-> Null, default_project |-> Null]

\* The keys a caller passes: the fields, the name of a method of the model,
\* and a name that is no attribute at all.
CliKeys == CliFields \cup {"model_dump", "invalid_key"}

CliValues == {"http://holon:9000", "secret"}

\* hasattr(config, key): a field, or any other attribute of the model object.
HasAttr(key) == key \in CliFields \cup {"model_dump"}

\* getattr(config, key), for a key with HasAttr(key).
GetAttr(cfg, key) == IF key \in CliFields THEN cfg[key] ELSE Str("<bound method>")

\* The configuration file: missing, not loadable (bad YAML, or values that
\* CLIConfig rejects), or a YAML mapping of the fields it gives (Null: the
\* key is not in the file).
CliFile(kind, data) == [kind |-> kind, data |-> data]

NoData == [k \in CliFields |-> Null]

CliFiles ==
    {CliFile("missing", NoData), CliFile("invalid", NoData)} \cup
    {CliFile("yaml", d) : d \in [CliFields -> {Null} \cup {Str(v) : v \in CliValues}]}

\* load_config(): the defaults when the file is missing or not loadable,
\* else CLIConfig(**data): the file's keys over the defaults.
LoadConfig(file) ==
    IF file.kind # "yaml" THEN CLIConfig
    ELSE [k \in CliFields |-> IF file.data[k].some THEN file.data[k] ELSE CLIConfig[k]]

\* save_config(config): yaml.dump(config.model_dump(exclude_none=True)).
SaveConfig(cfg) == CliFile("yaml", [k \in CliFields |-> cfg[k]])

\* The outcome of a call: what it was, what it raised, what it returned.
CliOut(op, key, value, raised, returned) ==
    [op |-> op, key |-> key, value |-> value, raised |-> raised, returned |-> returned]

CliIdle == [file |-> CliFile("missing", NoData), out |-> CliOut("", "", "", "", Null)]

\* set_config_value(key, value).  setattr on a name that is no field raises
\* ValueError in the model class, before save_config.
SetConfigValue ==
    /\ \E key \in CliKeys, value \in CliValues :
        LET cfg == LoadConfig(cli.file) IN
        IF HasAttr(key) /\ key \in CliFields
        THEN cli' = [file |-> SaveConfig([cfg EXCEPT ![key] = Str(value)]),
                     out |-> CliOut("set", key, value, "", Null)]
        ELSE cli' = [cli EXCEPT !.out = CliOut("set", key, value, "ValueError", Null)]
    /\ UNCHANGED <<store, config, eng, clock, faults, hist, dispatched, rs, projects, resp>>

\* get_config_value(key).
GetConfigValue ==
    /\ \E key \in CliKeys :
        LET cfg == LoadConfig(cli.file) IN
        IF HasAttr(key)
        THEN cli' = [cli EXCEPT !.out = CliOut("get", key, "", "", GetAttr(cfg, key))]
        ELSE cli' = [cli EXCEPT !.out = CliOut("get", key, "", "ValueError", Null)]
    /\ UNCHANGED <<store, config, eng, clock, faults, hist, dispatched, rs, projects, resp>>

InitCli ==
    /\ store = NoRun
    /\ hist = <<>>
    /\ config = ParseError
    /\ eng = [w \in Workers |-> Off]
    /\ clock = 1
    /\ faults = 0
    /\ dispatched = <<>>
    /\ rs = RsIdle
    /\ projects = <<>>
    /\ resp = NoResponse
    /\ \E file \in CliFiles : cli = [CliIdle EXCEPT !.file = file]

NextCli == SetConfigValue \/ GetConfigValue

SpecCli == InitCli /\ [][NextCli]_vars


\* One execute_run of a run that the trigger has saved as PENDING.
Init ==
    /\ \E inp \in InputContexts :
        /\ store = PendingRun(inp)
        /\ hist = <<PendingRun(inp)>>
    /\ config \in Configs
    /\ eng = [w \in Workers |-> IF w = "w1" THEN Called("run1") ELSE Off]
    /\ clock = 1
    /\ faults = 0
    /\ dispatched = <<>>
    /\ rs = RsIdle
    /\ projects = <<>>
    /\ resp = NoResponse
    /\ cli = CliIdle

Next ==
    \E w \in Workers :
        \/ Start(w)
        \/ SaveRunning(w)
        \/ StepLoad(w)
        \/ StepSave(w)
        \/ StepFailSave(w)
        \/ CompleteLoad(w)
        \/ CompleteSave(w)
        \/ HandlerLoad(w)
        \/ HandlerSave(w)

Spec == Init /\ [][Next]_vars

\* execute_run is a background task that runs to its end: a store call or a
\* dispatch that is entered returns (requests to the provider carry a
\* timeout), so the engine never stops in the middle of execute_run.
SpecFair == Init /\ [][Next]_vars /\ WF_vars(Next)

(***************************************************************************)
(* The API in front of the engine (api.py): deploy_project and trigger_run *)
(* against the project and run store, and the execute_run they start.      *)
(***************************************************************************)
\* The ids uuid4() gives to the projects, in the order of their creation.
ProjectIdPool == <<"proj1", "proj2", "proj3", "proj4">>

\* The project ids and the input contexts of the trigger requests: the first
\* project or an id that no project has; no input or a topic.
RequestedIds == {"proj1", "proj0"}

ApiInputs == {NoInput, InputOf(<<"topic">>, <<<<"Rust">>>>)}

\* A run id that no trigger_run has created.
UnknownRunId == "run0"

\* The configuration texts a client deploys, as parse_config reads them: a
\* text that is no workflow definition, a one-step sequential workflow, a
\* workflow of a type without executor.
ApiConfigs ==
    {ParseError,
     [ok |-> TRUE, type |-> "sequential", resources |-> Resources,
      steps |-> <<[id |-> "step1", agent |-> "writer", instruction |-> TopicRef]>>],
     [ok |-> TRUE, type |-> "scatter-gather", resources |-> Resources, steps |-> <<>>]}

\* Project(id, name, config_yaml, ..), and get_project's None.
Project(id, name, config_yaml) ==
    [some |-> TRUE, id |-> id, name |-> name, config_yaml |-> config_yaml,
     created_at |-> NullTime]

NoProject == [some |-> FALSE, id |-> "", name |-> "", config_yaml |-> ParseError,
              created_at |-> NullTime]

\* Mutant of GetProject: an unknown id is answered with the first project.
GetProjectOrFirst(project_id, fault) ==
    LET js == {j \in 1..Len(projects) : projects[j].id = project_id}
    IN IF fault \/ Len(projects) = 0 THEN NoProject
       ELSE IF js = {} THEN projects[1] ELSE projects[CHOOSE j \in js : TRUE]

\* get_project(project_id): None when there is no such file or it cannot be read.
GetProject(project_id, fault) ==
    LET js == {j \in 1..Len(projects) : projects[j].id = project_id}
    IN IF fault \/ js = {} THEN NoProject ELSE projects[CHOOSE j \in js : TRUE]

\* deploy_project: a new project id, the project saved as it came, 200; 500
\* when save_project raises.
Deploy ==
    /\ Len(projects) < MaxProjects
    /\ \E config_yaml \in ApiConfigs, f \in FaultChoices :
        LET request == Request("demo", config_yaml, "", NoInput)
            project_id == ProjectIdPool[Len(projects) + 1]
        IN
        /\ faults' = IF f THEN faults + 1 ELSE faults
        /\ IF f
           THEN /\ UNCHANGED projects
                /\ resp' = Response("deploy", request, 500, "StoreError", "", "")
           ELSE /\ projects' = Append(projects, [Project(project_id, "demo", config_yaml)
                                                    EXCEPT !.created_at = clock])
                /\ resp' = Response("deploy", request, 200, "deployed", project_id, "")
    /\ UNCHANGED <<store, config, eng, clock, hist, dispatched, rs, cli>>

\* Mutant of Trigger: execute_run is started without the run having been saved.
TriggerStartsBeforeSave ==
    \E project_id \in RequestedIds, input_context \in ApiInputs, f \in FaultChoices :
        LET request == Request("", ParseError, project_id, input_context)
            project == GetProject(project_id, f)
        IN
        /\ ReadFault(f)
        /\ IF ~project.some
           THEN /\ resp' = Response("trigger", request, 404, "Project not found", "", "")
                /\ UNCHANGED <<store, hist, eng, config>>
           ELSE /\ eng["w1"].pc = "off"
                /\ Set("w1", Called("run1"))
                /\ config' = project.config_yaml
                /\ resp' = Response("trigger", request, 202, "", "run1", "PENDING")
                /\ UNCHANGED <<store, hist>>
        /\ UNCHANGED <<clock, dispatched, rs, projects, cli>>

\* trigger_run: 404 for an unknown project; else the PENDING run is saved,
\* execute_run is handed to the background tasks, and the answer is 202.
\* A save_run that raises ends the request with 500 before the task is added.
Trigger ==
    \E project_id \in RequestedIds, input_context \in ApiInputs,
       f \in FaultChoices, g \in {FALSE, TRUE} :
        LET request == Request("", ParseError, project_id, input_context)
            project == GetProject(project_id, f)
            run == NewRun(project_id, input_context)
        IN
        /\ g => (~f /\ faults < MaxFaults)
        /\ IF ~project.some
           THEN /\ ~g
                /\ ReadFault(f)
                /\ resp' = Response("trigger", request, 404, "Project not found", "", "")
                /\ UNCHANGED <<store, hist, eng, config>>
           ELSE /\ eng["w1"].pc = "off"
                /\ SaveRun(run, g)
                /\ IF g
                   THEN /\ resp' = Response("trigger", request, 500, "StoreError", "", "")
                        /\ UNCHANGED <<eng, config>>
                   ELSE /\ Set("w1", Called(run.id))
                        /\ config' = project.config_yaml
                        /\ resp' = Response("trigger", request, 202, "", run.id, "PENDING")
        /\ UNCHANGED <<clock, dispatched, rs, projects, cli>>

\* execute_run called with a run id that the store does not hold.
ExecuteUnknown ==
    /\ eng["w2"].pc = "off"
    /\ Set("w2", Called(UnknownRunId))
    /\ UNCHANGED <<store, config, clock, faults, hist, dispatched, rs, projects, resp, cli>>

\* The engine behind the API: no project, no run, nothing running.
InitApi ==
    /\ store = NoRun
    /\ hist = <<>>
    /\ config = ParseError
    /\ eng = [w \in Workers |-> Off]
    /\ clock = 1
    /\ faults = 0
    /\ dispatched = <<>>
    /\ rs = RsIdle
    /\ projects = <<>>
    /\ resp = NoResponse
    /\ cli = CliIdle

NextApi == Deploy \/ Trigger \/ ExecuteUnknown \/ Next

SpecApi == InitApi /\ [][NextApi]_vars

(***************************************************************************)
(* _resolve_template called on its own, on templates put together from a   *)
(* few pieces of text and on the blackboards a run can hold.               *)
(***************************************************************************)
Flat(ss) == IF Len(ss) = 0 THEN <<>>
            ELSE LET f[j \in 1..Len(ss)] == IF j = 1 THEN ss[1] ELSE f[j - 1] \o ss[j]
                 IN f[Len(ss)]

TopicBraces == <<"{", "trigger", ".", "input", ".", "topic", "}">>
Step1Braces == <<"{", "steps", ".", "step1", ".", "result", "}">>

Pieces == {<<"Research ">>, <<"$">>, <<"{">>, <<"}">>,
           TopicBraces, Step1Braces,
           <<"{", "trigger", ".", "input", ".", "nope", "}">>,
           <<"{", "trigger", ".", "input", ".", "topic", ".", "x", "}">>,
           <<"{", "trigger", "}">>}

Templates == {Flat(ps) : ps \in UNION {[1..n -> Pieces] : n \in 0..MaxPieces}}

\* The blackboards: with and without the topic, with and without step1's output.
ResolverContexts ==
    {[some |-> TRUE, input |-> inp, steps |-> st] :
        inp \in {InputOf(<<>>, <<>>), InputOf(<<"topic">>, <<<<"Rust">>>>),
                 InputOf(<<"topic">>, <<<<"$">> \o Step1Braces>>)},
        st \in {<<>>, <<[id |-> "step1", out |-> StepOutput(<<"abc">>, PlainText)]>>}}

\* instruction = self._resolve_template(template, context)
Resolve ==
    /\ rs.pc = "ready"
    /\ rs' = [rs EXCEPT !.pc = "resolved",
                        !.out = ResolveTemplate(rs.template, Blackboard(rs.context))]
    /\ UNCHANGED <<store, config, eng, clock, faults, hist, dispatched, projects, resp, cli>>

\* The resolved text resolved once more against the same blackboard.
ResolveAgain ==
    /\ rs.pc = "resolved"
    /\ rs' = [rs EXCEPT !.pc = "twice",
                        !.again = ResolveTemplate(rs.out, Blackboard(rs.context))]
    /\ UNCHANGED <<store, config, eng, clock, faults, hist, dispatched, projects, resp, cli>>

InitResolve ==
    /\ store = NoRun
    /\ hist = <<>>
    /\ config = ParseError
    /\ eng = [w \in Workers |-> Off]
    /\ clock = 1
    /\ faults = 0
    /\ dispatched = <<>>
    /\ projects = <<>>
    /\ resp = NoResponse
    /\ cli = CliIdle
    /\ \E t \in Templates, c \in ResolverContexts :
        rs = [pc |-> "ready", template |-> t, context |-> c, out |-> <<>>, again |-> <<>>]

NextResolve == Resolve \/ ResolveAgain

SpecResolve == InitResolve /\ [][NextResolve]_vars

(***************************************************************************)
(* Properties.                                                             *)
(***************************************************************************)
Ended(w) == eng[w].pc \in {"returned", "raised"}

Sequential == config.ok /\ config.type = "sequential"

UniqueIds ==
    \A i, j \in 1..Len(config.steps) : i # j => config.steps[i].id # config.steps[j].id

StoreWorked == faults = 0

Terminal(status) == status \in {"COMPLETED", "FAILED"}

\* C1: a sequential workflow of N steps with unique ids whose steps all
\* execute, with the store working, leaves the persisted run COMPLETED with
\* exactly N trace events, all COMPLETED, carrying the step ids in declaration
\* order, and context.steps holding exactly those ids in declaration order.
C1_CompletedRunHasEveryStep ==
    (eng["w1"].pc = "returned" /\ Sequential /\ UniqueIds /\ StoreWorked) =>
        LET n == Len(config.steps) IN
        /\ store.status = "COMPLETED"
        /\ Len(store.trace_events) = n
        /\ \A j \in 1..n : /\ store.trace_events[j].status = "COMPLETED"
                           /\ store.trace_events[j].step_id = config.steps[j].id
        /\ store.context.some
        /\ Len(store.context.steps) = n
        /\ \A j \in 1..n : store.context.steps[j].id = config.steps[j].id

C1_Witness ==
    /\ eng["w1"].pc = "returned" /\ Sequential /\ UniqueIds /\ StoreWorked
    /\ Len(config.steps) >= 2
    /\ store.status = "COMPLETED"

\* C2: when step k raises while it is executed (here: its save raises, the
\* run having been loaded, and nothing else fails), the persisted run ends
\* FAILED with exactly k trace events: COMPLETED events of steps 1..k-1 in
\* order, then one FAILED event of step k.
C2_StepFailureLeavesKEvents ==
    (Ended("w1") /\ eng["w1"].step_raised > 0 /\ eng["w1"].srun.some /\ faults = 1) =>
        LET k == eng["w1"].step_raised IN
        /\ store.status = "FAILED"
        /\ Len(store.trace_events) = k
        /\ \A j \in 1..(k - 1) : /\ store.trace_events[j].status = "COMPLETED"
                                 /\ store.trace_events[j].step_id = config.steps[j].id
        /\ store.trace_events[k].status = "FAILED"
        /\ store.trace_events[k].step_id = config.steps[k].id

\* C3: execute_run never raises to its caller, whatever fails on the way.
C3_ExecuteRunNeverRaises == eng["w1"].pc # "raised"

StatusChange == <<store.status, store'.status>>

\* C4 as stated: the persisted status only moves PENDING -> RUNNING,
\* RUNNING -> COMPLETED and RUNNING -> FAILED.
C4_LifecycleTable ==
    [][store.status # store'.status =>
        StatusChange \in {<<"PENDING", "RUNNING">>, <<"RUNNING", "COMPLETED">>,
                          <<"RUNNING", "FAILED">>}]_vars

\* C4 as amended: within one execute_run the persisted status only moves
\* PENDING -> RUNNING, RUNNING -> COMPLETED, RUNNING -> FAILED, or
\* PENDING -> FAILED, the last only when the run fails before RUNNING is
\* persisted (the configuration does not parse, or a store call failed).
C4_LifecycleWithEarlyFailure ==
    [][store.status # store'.status =>
        \/ StatusChange \in {<<"PENDING", "RUNNING">>, <<"RUNNING", "COMPLETED">>,
                             <<"RUNNING", "FAILED">>}
        \/ /\ StatusChange = <<"PENDING", "FAILED">>
           /\ ~config.ok \/ faults > 0]_vars

C4_Witness ==
    /\ Len(hist) = 2
    /\ hist[1].status = "PENDING"
    /\ hist[2].status = "FAILED"
    /\ ~config.ok

\* C5: within one execute_run, once the persisted run is COMPLETED or FAILED
\* no later step of the engine writes the store: the record stays as it is.
C5_TerminalSaveIsLast ==
    [][Terminal(store.status) => (store' = store /\ hist' = hist)]_vars

C5_Witness ==
    /\ Terminal(store.status)
    /\ eng["w1"].pc = "returned"
    /\ Len(store.trace_events) >= 2

\* Every occurrence of the text ref in t replaced by v, left to right.
RECURSIVE Substitute(_, _, _)
Substitute(t, ref, v) ==
    IF Len(t) < Len(ref) THEN t
    ELSE IF SubSeq(t, 1, Len(ref)) = ref
         THEN v \o Substitute(SubSeq(t, Len(ref) + 1, Len(t)), ref, v)
         ELSE <<Head(t)>> \o Substitute(Tail(t), ref, v)

\* t holds at least one occurrence of ref, and plain text besides.
OnlyReferences(t, ref) ==
    LET rest == Substitute(t, ref, <<>>) IN
    /\ rest # t
    /\ \A j \in 1..Len(rest) : rest[j] \notin {"$", "{", "}"}

TopicIs(v) == rs.context.input.keys = <<"topic">> /\ rs.context.input.vals = <<v>>

\* C6: with input {"topic": v}, a template holding ${trigger.input.topic}
\* resolves to the template with the whole reference, the `$` included,
\* replaced by v.
C6_ReferenceReplacedWhole ==
    (rs.pc = "resolved" /\ TopicIs(<<"Rust">>) /\ OnlyReferences(rs.template, TopicRef)) =>
        rs.out = Substitute(rs.template, TopicRef, <<"Rust">>)

\* The brace groups of t that re.sub visits, as <<first, last>> index pairs.
RECURSIVE GroupsFrom(_, _)
GroupsFrom(t, i) ==
    IF i > Len(t) THEN {}
    ELSE IF MatchEnd(t, i) = 0 THEN GroupsFrom(t, i + 1)
         ELSE {<<i, MatchEnd(t, i)>>} \cup GroupsFrom(t, MatchEnd(t, i) + 1)

\* No reference of t names a path that resolves in the blackboard.
NothingResolves(t, context) ==
    \A g \in GroupsFrom(t, 1) :
        ~Walk(SplitDots(SubSeq(t, g[1] + 1, g[2] - 1)), Blackboard(context)).ok

C8_Step2UsesStep1Result ==
    (/\ eng["w1"].pc = "returned" /\ Sequential /\ UniqueIds /\ StoreWorked
     /\ Len(config.steps) = 2
     /\ config.steps[2].instruction = Step1Ref) =>
        LET r == store.trace_events[1].output.result IN
        /\ store.trace_events[2].input.instruction = <<"Use ">> \o r
        /\ store.context.steps[2].out.instruction = <<"Use ">> \o r

StepLevelEvents(run) ==
    {j \in 1..Len(run.trace_events) : run.trace_events[j].step_id # "system_error"}

\* C9: a workflow of a type other than sequential, whatever its steps, has no
\* step dispatched and no step-level trace event in any persisted record,
\* and with the store working execute_run ends with the persisted run
\* FAILED, its trace being exactly one system_error event.
C9_UnsupportedTypeFails ==
    (config.ok /\ config.type # "sequential") =>
        /\ dispatched = <<>>
        /\ \A j \in 1..Len(hist) : StepLevelEvents(hist[j]) = {}
        /\ (Ended("w1") /\ StoreWorked) =>
                /\ eng["w1"].pc = "returned"
                /\ store.status = "FAILED"
                /\ Len(store.trace_events) = 1
                /\ store.trace_events[1].step_id = "system_error"

C9_Witness ==
    /\ config.ok /\ config.type = "parallel" /\ Len(config.steps) >= 1
    /\ Ended("w1") /\ StoreWorked
    /\ store.status = "FAILED"

\* C10: when the workflow text does not parse, no step is executed and the
\* run is never persisted as RUNNING, and with the store working the run is
\* persisted as FAILED with ended_at set and exactly one trace event:
\* system_error, FAILED, its output carrying the parse error.
C10_ParseFailureFails ==
    ~config.ok =>
        /\ dispatched = <<>>
        /\ \A j \in 1..Len(hist) : hist[j].status # "RUNNING"
        /\ (Ended("w1") /\ StoreWorked) =>
                /\ eng["w1"].pc = "returned"
                /\ store.status = "FAILED"
                /\ store.ended_at # NullTime
                /\ Len(store.trace_events) = 1
                /\ store.trace_events[1].step_id = "system_error"
                /\ store.trace_events[1].status = "FAILED"
                /\ store.trace_events[1].output.error = "ConfigError"

C10_Witness ==
    /\ ~config.ok
    /\ Ended("w1") /\ StoreWorked
    /\ store.status = "FAILED"
    /\ store.started_at = NullTime

\* The ids of the first k steps of the workflow.
IdsUpTo(k) == {config.steps[j].id : j \in 1..k}

\* C11: once step k has failed, no step after k is dispatched, and no
\* persisted version of the run holds a step-level trace event or a
\* context.steps entry other than those of steps 1..k.
C11_NoStepAfterFailure ==
    eng["w1"].step_raised > 0 =>
        LET k == eng["w1"].step_raised IN
        /\ \A j \in 1..Len(dispatched) : dispatched[j][1] <= k
        /\ eng["w1"].pc \notin {"step_load", "step_save", "complete_load", "complete_save"}
        /\ \A j \in 1..Len(hist) :
            /\ \A e \in StepLevelEvents(hist[j]) : hist[j].trace_events[e].step_id \in IdsUpTo(k)
            /\ \A s \in 1..Len(hist[j].context.steps) : hist[j].context.steps[s].id \in IdsUpTo(k)

C11_Witness ==
    /\ eng["w1"].step_raised = 1
    /\ Len(config.steps) = 2 /\ UniqueIds
    /\ Ended("w1")
    /\ store.status = "FAILED"
    /\ \E e \in StepLevelEvents(store) : store.trace_events[e].status = "FAILED"

\* C12: when every dispatch returns, execute_run eventually returns with the
\* run persisted as COMPLETED or FAILED, unless a store call fails on the way.
C12_RunReachesTerminalStatus ==
    <>(faults > 0 \/ (eng["w1"].pc = "returned" /\ Terminal(store.status)))

C12_Witness ==
    /\ faults = 0
    /\ eng["w1"].pc = "returned"
    /\ store.status = "COMPLETED"
    /\ Len(config.steps) = 2
    /\ \E j \in 1..Len(dispatched) : FindAgent(config.steps[dispatched[j][1]]).provider = "ollama"

\* C13: when a provider call of a step ends in a transport error, the step
\* still gets a COMPLETED trace event whose result is the error text
\* beginning "[Error", the text is stored in context.steps, every step of
\* the workflow is executed and, the store working, the run ends COMPLETED.
C13_ProviderErrorKeepsRunGoing ==
    (Ended("w1") /\ StoreWorked) =>
        \A j \in 1..Len(dispatched) :
            IsErrorText(dispatched[j][3]) =>
                LET i == dispatched[j][1] IN
                /\ eng["w1"].pc = "returned"
                /\ store.status = "COMPLETED"
                /\ store.trace_events[i].step_id = dispatched[j][2]
                /\ store.trace_events[i].status = "COMPLETED"
                /\ store.trace_events[i].output.result = dispatched[j][3]
                /\ {dispatched[k][1] : k \in 1..Len(dispatched)} = 1..Len(config.steps)
                /\ UniqueIds =>
                    /\ store.context.steps[i].id = dispatched[j][2]
                    /\ store.context.steps[i].out.result = dispatched[j][3]

C13_Witness ==
    /\ Ended("w1") /\ StoreWorked /\ UniqueIds
    /\ Len(dispatched) = 2
    /\ IsErrorText(dispatched[1][3])
    /\ store.status = "COMPLETED"

Simulated(step) == FindAgent(step).provider # "ollama"

\* context.steps after the first n steps when each of them is simulated,
\* computed from the workflow and the run's input context alone.
RECURSIVE SimulatedSteps(_)
SimulatedSteps(n) ==
    IF n = 0 THEN <<>>
    ELSE LET prev == SimulatedSteps(n - 1)
             step == config.steps[n]
             board == Blackboard([InitContext(store.input_context) EXCEPT !.steps = prev])
         IN SetStep(prev, step.id,
                    StepOutput(<<"[SIMULATED] Executed step ", step.id>>,
                               ResolveTemplate(step.instruction, board)))

\* C14: the output of a step whose agent has no live integration is exactly
\* {"result": "[SIMULATED] Executed step <id>", "instruction": <the resolved
\* instruction>}; a run whose steps are all simulated therefore ends with
\* context.steps a function of the workflow and the input context.
C14_SimulatedOutputIsDetermined ==
    (eng["w1"].pc = "returned" /\ Sequential /\ StoreWorked) =>
        LET n == Len(config.steps) IN
        /\ \A j \in 1..n :
            Simulated(config.steps[j]) =>
                /\ store.trace_events[j].output.result =
                        <<"[SIMULATED] Executed step ", config.steps[j].id>>
                /\ store.trace_events[j].output.instruction =
                        store.trace_events[j].input.instruction
                /\ store.trace_events[j].output.error = ""
        /\ (\A j \in 1..n : Simulated(config.steps[j])) =>
                store.context.steps = SimulatedSteps(n)

C14_Witness ==
    /\ eng["w1"].pc = "returned" /\ Sequential /\ StoreWorked
    /\ Len(config.steps) = 2
    /\ \A j \in 1..2 : Simulated(config.steps[j])
    /\ config.steps[1].instruction = TopicRef
    /\ config.steps[2].instruction = Step1Ref
    /\ store.input_context.some /\ store.input_context.keys = <<"topic">>
    /\ Len(store.context.steps) = 2

\* RUNNING was persisted: every store call that failed did so after it.
WasRunning == \E j \in 1..Len(hist) : hist[j].status = "RUNNING"

\* C17: when a store call fails while the run is RUNNING, execute_run
\* catches the failure and the run ends persisted as FAILED.
C17_StoreFailureEndsFailed ==
    (Ended("w1") /\ WasRunning /\ faults > 0) =>
        /\ eng["w1"].pc = "returned"
        /\ store.status = "FAILED"

IsPrefix(s, u) == Len(s) <= Len(u) /\ SubSeq(u, 1, Len(s)) = s

\* C19: across the successive persisted versions of the run, each version's
\* trace_events has the previous version's trace_events as a prefix.
C19_TraceIsAppendOnly ==
    \A j \in 1..(Len(hist) - 1) : IsPrefix(hist[j].trace_events, hist[j + 1].trace_events)

\* C15: a trigger request for an existing project, the store working, saves
\* a new run record (PENDING, no started_at and ended_at, the request's input
\* context), answers 202 with its id and PENDING, and only then is
\* execute_run started; so execute_run's first read, if it does not fail,
\* finds the run.
C15_RunSavedBeforeExecuteStarts ==
    [][/\ (/\ resp' # resp /\ resp'.op = "trigger" /\ faults' = faults
           /\ GetProject(resp'.request.project_id, FALSE).some) =>
                /\ resp'.status = 202
                /\ resp'.run_status = "PENDING"
                /\ resp'.id = store'.id
                /\ ~store.some
                /\ store' = NewRun(resp'.request.project_id, resp'.request.input_context)
                /\ store'.status = "PENDING"
                /\ store'.started_at = NullTime /\ store'.ended_at = NullTime
                /\ eng["w1"].pc = "off"
                /\ eng'["w1"] = Called(store'.id)
       /\ eng'["w1"].pc = "idle" =>
                /\ store'.some /\ store'.id = eng'["w1"].run_id
                /\ store'.status = "PENDING"
                /\ hist' = <<store'>>
       /\ (eng["w1"].pc = "idle" /\ eng'["w1"].pc # "idle" /\ faults' = faults) =>
                /\ eng'["w1"].pc # "returned"
                /\ eng'["w1"].run.some
                /\ eng'["w1"].run.id = store.id]_vars

C15_Witness ==
    /\ resp.op = "trigger" /\ resp.status = 202
    /\ resp.request.input_context.some
    /\ eng["w1"].pc = "save_running"
    /\ store.status = "PENDING"
    /\ faults = 0

\* C16: execute_run for a run id that the store does not hold returns
\* without raising and changes nothing: no store write, no run record, no
\* step dispatched.
C16_AbsentRunIsNoOp ==
    [][/\ (eng["w2"].pc = "idle" /\ eng'["w2"] # eng["w2"]) =>
                /\ eng'["w2"].pc = "returned"
                /\ store' = store
                /\ hist' = hist
                /\ dispatched' = dispatched
                /\ projects' = projects
       /\ eng'["w2"].pc \in {"off", "idle", "returned"}]_vars

C16_Witness ==
    /\ eng["w2"].run_id = UnknownRunId
    /\ eng["w2"].pc = "returned"
    /\ store.some
    /\ faults = 0

\* C18: a deployed text that is no valid workflow definition is answered
\* with 400 "Invalid YAML Configuration" and stored as no project: every
\* stored project holds a valid configuration.
C18_InvalidConfigRejected ==
    faults = 0 =>
        /\ \A j \in 1..Len(projects) : projects[j].config_yaml.ok
        /\ (resp.op = "deploy" /\ ~resp.request.config_yaml.ok) =>
                /\ resp.status = 400
                /\ resp.detail = "Invalid YAML Configuration"

\* C20: after set_config_value(k, v) for a field k, get_config_value(k)
\* returns v and the other fields read as before; set_config_value and
\* get_config_value with a key that is no field raise ValueError, and the
\* failed set leaves the configuration file as it was.
C20_ConfigSetThenGet ==
    [][LET o == cli'.out IN
       /\ (o.op = "set" /\ o.key \in CliFields) =>
            /\ o.raised = ""
            /\ LoadConfig(cli'.file)[o.key] = Str(o.value)
            /\ \A k \in CliFields \ {o.key} : LoadConfig(cli'.file)[k] = LoadConfig(cli.file)[k]
       /\ (o.op = "get" /\ cli.out.op = "set" /\ o.key = cli.out.key /\ o.key \in CliFields) =>
            /\ o.raised = ""
            /\ o.returned = Str(cli.out.value)
       /\ o.key \notin CliFields =>
            /\ o.raised = "ValueError"
            /\ cli'.file = cli.file]_vars

\* C21: for every workflow parse_config accepts, with the store working,
\* each step of the engine leaves the entries of context.steps as they were
\* and adds at most one entry, the one of the step just executed: an entry
\* is written once and never removed or overwritten.
C21_StepEntryWrittenOnce ==
    [][faults' = 0 =>
        LET a == eng["w1"].context.steps
            b == eng'["w1"].context.steps
        IN /\ Len(b) >= Len(a)
           /\ Len(b) <= Len(a) + 1
           /\ \A j \in 1..Len(a) : b[j] = a[j]
           /\ Len(b) = Len(a) + 1 =>
                /\ eng["w1"].pc = "step_load"
                /\ b[Len(b)].id = config.steps[eng["w1"].i].id]_vars

\* The step a template refers to: 1 for Step1Ref, 2 for Step2Ref, else 0.
RefOf(template) ==
    IF template = Step1Ref THEN 1 ELSE IF template = Step2Ref THEN 2 ELSE 0

\* C22: with unique step ids, when the instruction of step j is resolved the
\* context's steps hold exactly the outputs of steps 1..j-1, in order, as
\* the persisted trace has them; a reference to the result of an earlier step
\* is replaced by that result, and a reference to step j itself or to a
\* later step is left in the instruction as it was written.
C22_OnlyEarlierStepsVisible ==
    [][(UniqueIds /\ eng["w1"].pc = "step_load" /\ dispatched' # dispatched) =>
        LET j == eng["w1"].i
            a == eng["w1"].context.steps
            template == config.steps[j].instruction
            instruction == eng'["w1"].context.steps[j].out.instruction
            p == RefOf(template)
        IN /\ Len(a) = j - 1
           /\ \A k \in 1..(j - 1) :
                /\ a[k].id = config.steps[k].id
                /\ a[k].out = store.trace_events[k].output
           /\ (p > 0 /\ p < j) => instruction = <<"Use ", "$">> \o a[p].out.result
           /\ (p > 0 /\ p >= j) => instruction = template]_vars

C22_Witness ==
    /\ eng["w1"].pc = "returned" /\ store.status = "COMPLETED" /\ UniqueIds
    /\ Len(config.steps) = 2
    /\ config.steps[1].instruction = Step2Ref
    /\ config.steps[2].instruction = Step1Ref
    /\ store.context.steps[1].out.instruction = Step2Ref
    /\ store.context.steps[2].out.instruction # Step1Ref

\* The steps of the workflow whose agent is the id of no declared resource.
UndeclaredAgentSteps ==
    {j \in 1..Len(config.steps) : FindAgent(config.steps[j]).id = ""}

\* C23: when execute_run of a sequential workflow has ended with the store
\* working and some step's agent matches no declared resource id, the
\* persisted run is FAILED and no such step has a COMPLETED trace event.
C23_UndeclaredAgentFailsFast ==
    (Ended("w1") /\ Sequential /\ StoreWorked /\ UndeclaredAgentSteps # {}) =>
        /\ store.status = "FAILED"
        /\ \A j \in UndeclaredAgentSteps :
            \A k \in 1..Len(store.trace_events) :
                store.trace_events[k].step_id = config.steps[j].id
                    => store.trace_events[k].status # "COMPLETED"

\* C24: a persisted run whose step raised holds a FAILED event for that
\* step and no system_error event; a system_error event is in the trace
\* only when no step raised.
C24_SystemErrorOnlyOutsideSteps ==
    \A j \in 1..Len(hist) :
        LET trace == hist[j].trace_events
            failed == {k \in 1..Len(trace) : trace[k].status = "FAILED"
                                              /\ trace[k].step_id # "system_error"}
        IN failed # {} =>
            \A k \in 1..Len(trace) : trace[k].step_id # "system_error"

\* C25: every persisted version of the run carries the id, the project id
\* and the input context the trigger saved, whatever path execute_run takes.
C25_IdentityFieldsKept ==
    \A j \in 1..Len(hist) :
        /\ hist[j].id = hist[1].id
        /\ hist[j].project_id = hist[1].project_id
        /\ hist[j].input_context = hist[1].input_context

C25_Witness ==
    /\ Ended("w1") /\ store.status = "FAILED" /\ faults > 0
    /\ Len(hist) >= 4
    /\ ~hist[1].input_context.some
    /\ \E j \in 1..Len(hist) : hist[j].context.some

\* The top-level keys of a persisted context.
ContextKeys(context) == Blackboard(context).keys

\* C26: in every persisted version of the run that has a context, the
\* context's top-level keys are trigger and steps and context.trigger.input
\* equals the run's input_context, also when the run has none.
C26_TriggerInputIsInputContext ==
    \A j \in 1..Len(hist) :
        hist[j].context.some =>
            /\ ContextKeys(hist[j].context) = <<"trigger", "steps">>
            /\ hist[j].context.input = hist[j].input_context

\* C26, amended: context.trigger.input equals the run's input_context when
\* the run has one, and is the empty mapping when the run has none.
C26_TriggerInputOrEmpty ==
    \A j \in 1..Len(hist) :
        hist[j].context.some =>
            /\ ContextKeys(hist[j].context) = <<"trigger", "steps">>
            /\ hist[j].context.input =
                    IF hist[j].input_context.some THEN hist[j].input_context
                    ELSE InputOf(<<>>, <<>>)

C26_Witness ==
    /\ eng["w1"].pc = "returned" /\ store.status = "COMPLETED"
    /\ ~store.input_context.some
    /\ store.context.some
    /\ store.context.input = InputOf(<<>>, <<>>)
    /\ Len(store.context.steps) = 2

\* The keys of context.steps (none when the context is absent), and the ids
\* of the steps with a COMPLETED trace event.
ContextStepIds(run) == {run.context.steps[k].id : k \in 1..Len(run.context.steps)}
CompletedStepIds(run) ==
    {run.trace_events[k].step_id :
        k \in {n \in 1..Len(run.trace_events) : run.trace_events[n].status = "COMPLETED"}}

\* C27: in every persisted version of the run, intermediate or terminal,
\* with the store working or failing, the keys of context.steps are the ids
\* of the steps that have a COMPLETED trace event.
C27_BlackboardAgreesWithTrace ==
    \A j \in 1..Len(hist) : ContextStepIds(hist[j]) = CompletedStepIds(hist[j])

(***************************************************************************)
(* Another writer of the run record: between two steps of the engine it    *)
(* reads the run, appends a trace event of its own and saves the record.   *)
(***************************************************************************)
MaxAppends == 1

ExternalId == "external"

ExternalEvents(run) ==
    {run.trace_events[k] :
        k \in {n \in 1..Len(run.trace_events) : run.trace_events[n].step_id = ExternalId}}

AllExternalEvents == UNION {ExternalEvents(hist[j]) : j \in 1..Len(hist)}

\* After the engine's save for one step and before its reload for the next
\* step or for the completion.
BetweenSteps(w) ==
    \/ eng[w].pc = "step_load" /\ eng[w].i > 1
    \/ eng[w].pc = "complete_load" /\ Len(config.steps) > 0

\* get_run, trace_events.append, save_run by the other writer.
AppendBetweenSteps ==
    /\ BetweenSteps("w1")
    /\ Cardinality(AllExternalEvents) < MaxAppends
    /\ LET run == GetRun("run1", FALSE)
           event == TraceEvent(ExternalId, "COMPLETED", NoStepInput, ErrorOutput(""), clock)
       IN /\ run.some
          /\ SaveRun([run EXCEPT !.trace_events = Append(run.trace_events, event)], FALSE)
    /\ clock' = clock + 1
    /\ UNCHANGED <<config, eng, dispatched, rs, projects, resp, cli>>

\* The workflows of the shared run: 0..MaxSteps simulated steps.
SharedConfigs ==
    {[ok |-> TRUE, type |-> "sequential", resources |-> Resources,
      steps |-> [j \in 1..n |-> [id |-> IdPool[j], agent |-> "writer",
                                 instruction |-> PlainText]]] : n \in 0..MaxSteps}

InitShared ==
    /\ store = PendingRun(NoInput)
    /\ hist = <<PendingRun(NoInput)>>
    /\ config \in SharedConfigs
    /\ eng = [w \in Workers |-> IF w = "w1" THEN Called("run1") ELSE Off]
    /\ clock = 1
    /\ faults = 0
    /\ dispatched = <<>>
    /\ rs = RsIdle
    /\ projects = <<>>
    /\ resp = NoResponse
    /\ cli = CliIdle

NextShared == AppendBetweenSteps \/ Next

SpecShared == InitShared /\ [][NextShared]_vars

\* C28: a trace event another writer appended to the persisted run while
\* the engine was between steps is in every later persisted version of the
\* run, the terminal record included.
C28_ExternalEventPreserved ==
    \A e \in AllExternalEvents :
        \E k \in 1..Len(store.trace_events) : store.trace_events[k] = e

(***************************************************************************)
(* Two invocations of execute_run for one run id (a second background task *)
(* for the same run): nothing in the engine or the store orders them.      *)
(* The store works throughout: no store call is left to fail.              *)
(***************************************************************************)
InitTwice ==
    /\ store = PendingRun(NoInput)
    /\ hist = <<PendingRun(NoInput)>>
    /\ config \in SharedConfigs
    /\ eng = [w \in Workers |-> Called("run1")]
    /\ clock = 1
    /\ faults = MaxFaults
    /\ dispatched = <<>>
    /\ rs = RsIdle
    /\ projects = <<>>
    /\ resp = NoResponse
    /\ cli = CliIdle

NextTwice ==
    \E w \in Workers :
        \/ Start(w)
        \/ SaveRunning(w)
        \/ StepLoad(w)
        \/ StepSave(w)
        \/ CompleteLoad(w)
        \/ CompleteSave(w)

SpecTwice == InitTwice /\ [][NextTwice]_vars

\* The record an invocation is about to save.
Saving(w) == IF eng[w].pc = "step_save" THEN eng[w].srun ELSE eng[w].run

Executing(w) == eng[w].pc \in {"step_load", "step_save"}

\* An event of an earlier persisted version that a later version lacks.
LostUpdate ==
    \E j \in 1..Len(hist) : \E k \in j..Len(hist) :
        \E n \in 1..Len(hist[j].trace_events) :
            \A m \in 1..Len(hist[k].trace_events) :
                hist[k].trace_events[m] # hist[j].trace_events[n]

\* C29: with two invocations of execute_run for one run id, every save
\* replaces the whole persisted record by the saving invocation's own copy,
\* whatever the other invocation has saved since that copy was loaded; the
\* invocations are not serialized, and an event one of them saved can be
\* overwritten by the other's save.
C29_SaveReplacesWholeRecord ==
    [][hist' # hist =>
        \E w \in Workers :
            /\ eng'[w] # eng[w]
            /\ store' = Saving(w)
            /\ hist' = Append(hist, Saving(w))]_vars

C29_Witness ==
    /\ Executing("w1") /\ Executing("w2")
    /\ eng["w1"].i = 2 /\ eng["w2"].i = 2
    /\ LostUpdate
    /\ Len(store.trace_events) = 1

\* C30: a template without any `$` holds no ${<dotted-path>} reference, so
\* resolve returns it unchanged, its brace-delimited text included, whatever
\* the blackboard.
C30_BracesWithoutDollarKept ==
    (rs.pc = "resolved" /\ \A j \in 1..Len(rs.template) : rs.template[j] # "$") =>
        rs.out = rs.template

(***************************************************************************)
(* The reading endpoints of the API: GET /runs/{run_id}, its logs, the     *)
(* logs of a process and the list of the projects.                         *)
(***************************************************************************)
RequestedRunIds == {"run1", UnknownRunId}

\* get_run: 404 for a run the store does not return, else the run's detail.
GetRunDetail ==
    \E run_id \in RequestedRunIds, f \in FaultChoices :
        LET run == GetRun(run_id, f) IN
        /\ ReadFault(f)
        /\ resp' = IF ~run.some
                   THEN Response("get_run", RunRequest(run_id), 404, "Run not found", "", "")
                   ELSE Response("get_run", RunRequest(run_id), 200, "", run.id, run.status)
        /\ UNCHANGED <<store, config, eng, clock, hist, dispatched, rs, projects, cli>>

\* get_run_logs: 404 for a run the store does not return, else its trace.
GetRunLogs ==
    \E run_id \in RequestedRunIds, f \in FaultChoices :
        LET run == GetRun(run_id, f) IN
        /\ ReadFault(f)
        /\ resp' = IF ~run.some
                   THEN Response("get_run_logs", RunRequest(run_id), 404, "Run not found", "", "")
                   ELSE [Response("get_run_logs", RunRequest(run_id), 200, "", run.id, "")
                            EXCEPT !.body = run.trace_events]
        /\ UNCHANGED <<store, config, eng, clock, hist, dispatched, rs, projects, cli>>

\* Mutant of LatestRun: a run that has not started counts as well.
LatestRunStartedOrNot(process_id) ==
    IF store.some /\ store.project_id = process_id THEN store ELSE NoRun

\* The loop over the run files: the run of the project with the greatest
\* started_at, runs without started_at being passed over.
LatestRun(process_id) ==
    IF store.some /\ store.project_id = process_id /\ store.started_at # NullTime
    THEN store ELSE NoRun

\* get_process_logs: 404 for a project the store does not return, else the
\* trace of the latest run found, or the empty list.
GetProcessLogs ==
    \E process_id \in RequestedIds, f \in FaultChoices :
        LET request == Request("", ParseError, process_id, NoInput)
            project == GetProject(process_id, f)
            latest_run == LatestRun(process_id)
        IN
        /\ ReadFault(f)
        /\ resp' = IF ~project.some
                   THEN Response("process_logs", request, 404, "Process not found", "", "")
                   ELSE [Response("process_logs", request, 200, "", "", "")
                            EXCEPT !.body = IF latest_run.some THEN latest_run.trace_events
                                            ELSE <<>>]
        /\ UNCHANGED <<store, config, eng, clock, hist, dispatched, rs, projects, cli>>

\* A stored project file whose text is no project any more.
CorruptProject ==
    /\ \E j \in 1..Len(projects) :
        /\ projects[j].some
        /\ projects' = [projects EXCEPT ![j] = [@ EXCEPT !.some = FALSE]]
    /\ UNCHANGED <<store, config, eng, clock, faults, hist, dispatched, rs, resp, cli>>

\* The orders in which glob may return n files.
GlobOrders(n) == {p \in [1..n -> 1..n] : \A i, j \in 1..n : i # j => p[i] # p[j]}

\* Mutant of SortedNewestFirst: sorted without reverse=True.
RECURSIVE SortedOldestFirst(_)
SortedOldestFirst(ps) ==
    IF Len(ps) = 0 THEN <<>>
    ELSE LET s == SortedOldestFirst(SubSeq(ps, 1, Len(ps) - 1))
             x == ps[Len(ps)]
             k == Cardinality({j \in 1..Len(s) : s[j].created_at <= x.created_at})
         IN SubSeq(s, 1, k) \o <<x>> \o SubSeq(s, k + 1, Len(s))

\* sorted(projects, key=created_at, reverse=True): stable, newest first.
RECURSIVE SortedNewestFirst(_)
SortedNewestFirst(ps) ==
    IF Len(ps) = 0 THEN <<>>
    ELSE LET s == SortedNewestFirst(SubSeq(ps, 1, Len(ps) - 1))
             x == ps[Len(ps)]
             k == Cardinality({j \in 1..Len(s) : s[j].created_at >= x.created_at})
         IN SubSeq(s, 1, k) \o <<x>> \o SubSeq(s, k + 1, Len(s))

\* ProjectSummary(id, name, created_at)
ProjectSummary(p) == [id |-> p.id, name |-> p.name, created_at |-> p.created_at]

\* list_projects: the files glob returns, those that cannot be read passed
\* over, sorted; the empty list when glob fails.
ListProjects ==
    \E order \in GlobOrders(Len(projects)), f \in FaultChoices :
        LET files == [j \in 1..Len(projects) |-> projects[order[j]]]
            read == SelectSeq(files, LAMBDA p : p.some)
            sorted == IF f THEN <<>> ELSE SortedNewestFirst(read)
        IN
        /\ ReadFault(f)
        /\ resp' = [Response("list_projects", Request("", ParseError, "", NoInput), 200, "", "", "")
                        EXCEPT !.body = [j \in 1..Len(sorted) |-> ProjectSummary(sorted[j])]]
        /\ UNCHANGED <<store, config, eng, clock, hist, dispatched, rs, projects, cli>>

\* The engine behind the API with a store whose calls all succeed.
InitRead ==
    /\ store = NoRun
    /\ hist = <<>>
    /\ config = ParseError
    /\ eng = [w \in Workers |-> Off]
    /\ clock = 1
    /\ faults = MaxFaults
    /\ dispatched = <<>>
    /\ rs = RsIdle
    /\ projects = <<>>
    /\ resp = NoResponse
    /\ cli = CliIdle

\* execute_run as it goes when no store call fails.
NextWorking ==
    \E w \in Workers :
        \/ Start(w)
        \/ SaveRunning(w)
        \/ StepLoad(w)
        \/ StepSave(w)
        \/ CompleteLoad(w)
        \/ CompleteSave(w)
        \/ HandlerLoad(w)
        \/ HandlerSave(w)

NextRead ==
    \/ GetRunDetail
    \/ GetRunLogs
    \/ GetProcessLogs
    \/ CorruptProject
    \/ ListProjects
    \/ Deploy
    \/ Trigger
    \/ NextWorking

SpecRead == InitRead /\ [][NextRead]_vars

\* The ids of the projects the store holds and can read.
ReadableIds == {projects[j].id : j \in {k \in 1..Len(projects) : projects[k].some}}

\* C31: with the store working, the process-logs endpoint answers 404 for
\* a project that does not exist, and for an existing project it returns
\* the trace events of the project's most recent run, the empty list when
\* the project has no run.
C31_ProcessLogsOfLatestRun ==
    [][(resp' # resp /\ resp'.op = "process_logs") =>
        LET process_id == resp'.request.project_id IN
        IF process_id \in ReadableIds
        THEN /\ resp'.status = 200
             /\ resp'.body = IF store.some /\ store.project_id = process_id
                             THEN store.trace_events ELSE <<>>
        ELSE resp'.status = 404]_vars

\* C32: with the store working, list_projects returns exactly the projects
\* whose files can be read, each once, newest created_at first, and a
\* successful deploy adds exactly one project under an id no project has.
C32_ListIsReadableProjectsNewestFirst ==
    [][/\ (resp' # resp /\ resp'.op = "list_projects") =>
            LET body == resp'.body IN
            /\ resp'.status = 200
            /\ {body[j].id : j \in 1..Len(body)} = ReadableIds
            /\ Len(body) = Cardinality(ReadableIds)
            /\ \A i, j \in 1..Len(body) : i < j => body[i].created_at >= body[j].created_at
       /\ (resp' # resp /\ resp'.op = "deploy" /\ resp'.status = 200) =>
            /\ Len(projects') = Len(projects) + 1
            /\ SubSeq(projects', 1, Len(projects)) = projects
            /\ projects'[Len(projects')].id = resp'.id
            /\ \A j \in 1..Len(projects) : projects[j].id # resp'.id]_vars

C32_Witness ==
    /\ resp.op = "list_projects"
    /\ Len(projects) = 2
    /\ ~projects[1].some /\ projects[2].some
    /\ Len(resp.body) = 1
    /\ resp.body[1].id = projects[2].id

\* C33: a trigger for a project id the store does not hold, and a read of a
\* run or of its logs for a run id the store does not hold, are answered
\* with 404 and change neither the store nor the engine.
C33_UnknownIdIs404 ==
    [][(/\ resp' # resp
        /\ \/ resp'.op = "trigger" /\ resp'.request.project_id \notin ReadableIds
           \/ resp'.op \in {"get_run", "get_run_logs"}
                /\ ~(store.some /\ store.id = resp'.request.run_id)) =>
            /\ resp'.status = 404
            /\ resp'.id = ""
            /\ store' = store /\ hist' = hist /\ eng' = eng
            /\ projects' = projects /\ dispatched' = dispatched]_vars

C33_Witness ==
    /\ resp.op = "get_run_logs" /\ resp.status = 404
    /\ resp.request.run_id = UnknownRunId
    /\ store.some /\ store.status = "COMPLETED"
    /\ Len(projects) >= 1

(***************************************************************************)
(* The chat endpoint (websocket_chat): one connection, its messages        *)
(* handled one after the other, each by a run executed synchronously.      *)
(* resp is the last frame sent on the connection, or the message that is   *)
(* being handled.                                                          *)
(***************************************************************************)
MaxMessages == 2

RunIdPool == <<"run1", "run2", "run3", "run4">>

ChatMessages == {"", "hi"}

\* The workflows behind the chat: those of ApiConfigs and a two-step one.
ChatConfigs ==
    ApiConfigs \cup
    {[ok |-> TRUE, type |-> "sequential", resources |-> Resources,
      steps |-> <<[id |-> "step1", agent |-> "writer", instruction |-> PlainText],
                  [id |-> "step2", agent |-> "local", instruction |-> Step1Ref]>>]}

\* The runs the connection has created so far.
RunsCreated == Cardinality({hist[j].id : j \in 1..Len(hist)})

ConnectionOpen == resp.op \in {"chat_accept", "chat_received", "chat", "chat_error"}

\* Lines 278-288: accept, look the project up, close with 1008 when it is
\* not found.
ChatConnect ==
    /\ resp = NoResponse
    /\ \E project_id \in RequestedIds, f \in FaultChoices :
        LET request == Request("", ParseError, project_id, NoInput)
            project == GetProject(project_id, f)
        IN
        /\ ReadFault(f)
        /\ IF ~project.some
           THEN /\ resp' = Response("chat_close", request, 1008, "Project not found", "", "")
                /\ UNCHANGED config
           ELSE /\ resp' = Response("chat_accept", request, 101, "", "", "")
                /\ config' = project.config_yaml
    /\ UNCHANGED <<store, eng, clock, hist, dispatched, rs, projects, cli>>

\* Lines 293-316: receive a message; an empty one is answered with an error,
\* for any other one a PENDING run is saved and execute_run is called.
ChatReceive ==
    /\ ConnectionOpen
    /\ eng["w1"].pc = "off"
    /\ RunsCreated < MaxMessages
    /\ \E user_message \in ChatMessages, g \in FaultChoices :
        LET request == [Request(user_message, ParseError, resp.request.project_id, NoInput)
                            EXCEPT !.run_id = RunIdPool[RunsCreated + 1]]
            run == [NewRun(request.project_id, InputOf(<<"message">>, <<<<user_message>>>>))
                        EXCEPT !.id = request.run_id]
        IN
        IF user_message = ""
        THEN /\ ~g
             /\ resp' = Response("chat_error", request, 200, "No message provided", "", "")
             /\ UNCHANGED <<store, hist, faults, eng>>
        ELSE /\ SaveRun(run, g)
             /\ IF g
                THEN /\ resp' = Response("chat_error", request, 200, "StoreError", "", "")
                     /\ UNCHANGED eng
                ELSE /\ Set("w1", Called(run.id))
                     /\ resp' = Response("chat_received", request, 0, "", "", "")
    /\ UNCHANGED <<config, clock, dispatched, rs, projects, cli>>

\* Mutant of ResponseText: the first step's result is sent.
ResponseTextOfFirstStep(completed_run) ==
    IF completed_run.some /\ completed_run.context.some
       /\ Len(completed_run.context.steps) > 0
    THEN completed_run.context.steps[1].out.result
    ELSE <<>>

\* Lines 321-331: the result of the last key of context["steps"], or "".
ResponseText(completed_run) ==
    IF completed_run.some /\ completed_run.context.some
       /\ Len(completed_run.context.steps) > 0
    THEN completed_run.context.steps[Len(completed_run.context.steps)].out.result
    ELSE <<>>

\* Lines 316-349: execute_run has ended; the run is reloaded and the reply
\* is sent, or the error when execute_run raised.
ChatReply ==
    /\ ConnectionOpen
    /\ Ended("w1")
    /\ \E f \in FaultChoices :
        LET completed_run == GetRun(eng["w1"].run_id, f) IN
        /\ IF eng["w1"].pc = "raised"
           THEN /\ ~f
                /\ resp' = Response("chat_error", resp.request, 200, eng["w1"].exc, "", "")
           ELSE resp' = [Response("chat", resp.request, 200, "", eng["w1"].run_id,
                                  completed_run.status)
                            EXCEPT !.body = ResponseText(completed_run)]
        /\ ReadFault(f)
    /\ Set("w1", Off)
    /\ UNCHANGED <<store, config, clock, hist, dispatched, rs, projects, cli>>

InitChat ==
    /\ store = NoRun
    /\ hist = <<>>
    /\ config = ParseError
    /\ eng = [w \in Workers |-> Off]
    /\ clock = 1
    /\ faults = 0
    /\ dispatched = <<>>
    /\ rs = RsIdle
    /\ \E config_yaml \in ChatConfigs : projects = <<Project("proj1", "demo", config_yaml)>>
    /\ resp = NoResponse
    /\ cli = CliIdle

NextChat == ChatConnect \/ ChatReceive \/ ChatReply \/ Next

SpecChat == InitChat /\ [][NextChat]_vars

\* C34: with the store working, a non-empty chat message creates exactly
\* one new run, saved PENDING under a new id, and only when the run of the
\* message before has ended and no message is being handled; an empty message creates
\* none; the reply is sent when the run's persisted status is COMPLETED or
\* FAILED and carries the run's id and the result of the last entry of the
\* persisted context.steps (the empty text when there is none).
C34_ChatRunsOneMessageAtATime ==
    [][faults' = 0 =>
        /\ (resp'.request # resp.request /\ resp'.request.name # "") =>
            LET run == hist'[Len(hist')] IN
            /\ Len(hist') = Len(hist) + 1
            /\ SubSeq(hist', 1, Len(hist)) = hist
            /\ run.status = "PENDING"
            /\ run.id = resp'.request.run_id
            /\ \A j \in 1..Len(hist) : hist[j].id # run.id
            /\ store' = run
            /\ eng["w1"].pc = "off" /\ eng'["w1"] = Called(run.id)
            /\ store.some => Terminal(store.status)
            /\ resp.op # "chat_received"
        /\ (resp' # resp /\ resp'.request.name = "") => hist' = hist
        /\ (resp' # resp /\ resp'.op = "chat") =>
            /\ resp'.id = resp.request.run_id
            /\ store.id = resp'.id
            /\ Terminal(store.status)
            /\ resp'.run_status = store.status
            /\ resp'.body = IF Len(store.context.steps) = 0 THEN <<>>
                            ELSE store.context.steps[Len(store.context.steps)].out.result
            /\ store' = store /\ hist' = hist]_vars

C34_Witness ==
    /\ faults = 0
    /\ resp.op = "chat" /\ resp.id = "run2"
    /\ store.id = "run2" /\ store.status = "COMPLETED"
    /\ Len(store.context.steps) = 2
    /\ resp.body = store.context.steps[2].out.result
    /\ resp.body # store.context.steps[1].out.result

\* C35: in every persisted version of the run, ended_at is set exactly when
\* the status is COMPLETED or FAILED, and started_at is set exactly when
\* the status is not PENDING.
C35_TimestampsFollowStatus ==
    \A j \in 1..Len(hist) :
        /\ (hist[j].ended_at # NullTime) <=> Terminal(hist[j].status)
        /\ (hist[j].started_at # NullTime) <=> (hist[j].status # "PENDING")

\* C35, amended: ended_at is set exactly when the status is COMPLETED or
\* FAILED; started_at is unset in PENDING and set in RUNNING and COMPLETED;
\* a FAILED version has it unset only if no earlier version was RUNNING;
\* once a persisted version has started_at set, every later version has
\* the same value.
C35_TimestampsFollowStatusOrEarlyFailure ==
    \A j \in 1..Len(hist) :
        /\ (hist[j].ended_at # NullTime) <=> Terminal(hist[j].status)
        /\ hist[j].status = "PENDING" => hist[j].started_at = NullTime
        /\ hist[j].status \in {"RUNNING", "COMPLETED"} => hist[j].started_at # NullTime
        /\ (hist[j].status = "FAILED" /\ hist[j].started_at = NullTime) =>
                \A k \in 1..j : hist[k].status # "RUNNING"
        /\ \A k \in j..Len(hist) :
                hist[j].started_at # NullTime => hist[k].started_at = hist[j].started_at

C35_Witness ==
    /\ Len(hist) = 2
    /\ hist[2].status = "FAILED"
    /\ hist[2].started_at = NullTime
    /\ hist[2].ended_at # NullTime
    /\ ~config.ok
    /\ faults = 0

SystemErrors(run) ==
    {k \in 1..Len(run.trace_events) : run.trace_events[k].step_id = "system_error"}

\* C36: with one execution of the run, every persisted version with status
\* FAILED has exactly one system_error event, the last event of its trace,
\* and no persisted version with another status has a system_error event.
C36_SystemErrorMarksFailed ==
    \A j \in 1..Len(hist) :
        IF hist[j].status = "FAILED"
        THEN SystemErrors(hist[j]) = {Len(hist[j].trace_events)}
        ELSE SystemErrors(hist[j]) = {}

C36_Witness ==
    /\ eng["w1"].pc = "returned" /\ store.status = "FAILED"
    /\ eng["w1"].step_raised = 2
    /\ Len(store.trace_events) = 4
    /\ SystemErrors(store) = {4}

(***************************************************************************)
(* execute_run called once more for a run whose execution has ended.       *)
(***************************************************************************)
ExecuteAgain ==
    /\ Ended("w1")
    /\ eng["w2"].pc = "off"
    /\ Set("w2", Called("run1"))
    /\ UNCHANGED <<store, config, clock, faults, hist, dispatched, rs, projects, resp, cli>>

NextAgain == ExecuteAgain \/ Next

SpecAgain == InitShared /\ [][NextAgain]_vars

\* C37: once a persisted version of the run is COMPLETED or FAILED, an
\* execute_run called for the run leaves the record as it is: every later
\* persisted version equals the terminal one.
C37_TerminalRunLeftAlone ==
    \A j \in 1..Len(hist) : \A k \in j..Len(hist) :
        Terminal(hist[j].status) => hist[k] = hist[j]

\* A value that is itself reference-shaped text.
NestedValue == <<"$">> \o Step1Braces

\* C38: when trigger.input.topic is the text "${steps.step1.result}", a
\* template whose brace groups are all {trigger.input.topic} resolves to
\* the template with each group replaced by that text as it is, whether or
\* not steps.step1.result resolves in the blackboard.
C38_SubstitutedValueNotRescanned ==
    (/\ rs.pc \in {"resolved", "twice"}
     /\ TopicIs(NestedValue)
     /\ LET rest == Substitute(rs.template, TopicBraces, <<>>)
        IN rest # rs.template /\ \A j \in 1..Len(rest) : rest[j] \notin {"{", "}"}) =>
        rs.out = Substitute(rs.template, TopicBraces, NestedValue)

C38_Witness ==
    /\ rs.pc = "twice"
    /\ TopicIs(NestedValue)
    /\ rs.template = TopicRef
    /\ Len(rs.context.steps) = 1
    /\ rs.out = <<"Research ", "$">> \o NestedValue
    /\ rs.again # rs.out

====
